---- MODULE Spec2Model ----
(***************************************************************************)
(* Model of the dataset API of suchetBackend: the CSV loader and the       *)
(* summarizer of loadData.js (src/unnamed/part_000) and the Express routes *)
(* of src/db.js that serve the in-memory store.                            *)
(*                                                                         *)
(* Cells are JavaScript strings, modelled as sequences of one-character    *)
(* strings so that String.prototype.trim and the Number() coercion are     *)
(* computed character by character.  JavaScript numbers are modelled as    *)
(* records [k, n, d]: a finite rational n/d in lowest terms, +Infinity,    *)
(* -Infinity or NaN, with the IEEE-754 rules for the special values.       *)
(***************************************************************************)
EXTENDS Integers, Sequences, FiniteSets

VARIABLES files, phase, store, req, resp

vars == <<files, phase, store, req, resp>>

(***************************************************************************)
(* Bounds of the model.                                                    *)
(***************************************************************************)
MaxRows == 3

(***************************************************************************)
(* JavaScript values.                                                      *)
(***************************************************************************)
Undefined == [t |-> "undefined"]

Str(s) == [t |-> "string", s |-> s]

NaN == [k |-> "nan", n |-> 0, d |-> 1]

PosInf == [k |-> "inf", n |-> 1, d |-> 1]

NegInf == [k |-> "inf", n |-> -1, d |-> 1]

Abs(i) == IF i < 0 THEN -i ELSE i

RECURSIVE Gcd(_, _)
Gcd(a, b) == IF b = 0 THEN a ELSE Gcd(b, a % b)

\* the finite number a/b (b > 0), in lowest terms
Fin(a, b) ==
    LET g == Gcd(Abs(a), b)
    IN  [k |-> "fin", n |-> a \div g, d |-> b \div g]

isNaN(x) == x.k = "nan"

\* x + y of two numbers
Plus(x, y) ==
    IF isNaN(x) \/ isNaN(y) THEN NaN
    ELSE IF x.k = "inf" /\ y.k = "inf" THEN (IF x.n = y.n THEN x ELSE NaN)
    ELSE IF x.k = "inf" THEN x
    ELSE IF y.k = "inf" THEN y
    ELSE Fin(x.n * y.d + y.n * x.d, x.d * y.d)

\* x / c for a positive integer c (an array length)
DivideBy(x, c) ==
    IF x.k = "fin" THEN Fin(x.n, x.d * c) ELSE x

\* x <= y; every comparison with NaN is false
Leq(x, y) ==
    IF isNaN(x) \/ isNaN(y) THEN FALSE
    ELSE IF x.k = "inf" THEN (x.n = -1 \/ y = x)
    ELSE IF y.k = "inf" THEN y.n = 1
    ELSE x.n * y.d <= y.n * x.d

RECURSIVE MathMin(_)
MathMin(vs) ==
    IF Len(vs) = 0 THEN PosInf
    ELSE LET m == MathMin(Tail(vs))
         IN  IF isNaN(Head(vs)) \/ isNaN(m) THEN NaN
             ELSE IF Leq(Head(vs), m) THEN Head(vs) ELSE m

RECURSIVE MathMax(_)
MathMax(vs) ==
    IF Len(vs) = 0 THEN NegInf
    ELSE LET m == MathMax(Tail(vs))
         IN  IF isNaN(Head(vs)) \/ isNaN(m) THEN NaN
             ELSE IF Leq(m, Head(vs)) THEN Head(vs) ELSE m

(***************************************************************************)
(* Strings: trim and the string-to-number coercion.                        *)
(***************************************************************************)
IsWhiteSpace(c) == c \in {" ", "\t"}

RECURSIVE TrimStart(_)
TrimStart(s) ==
    IF Len(s) > 0 /\ IsWhiteSpace(Head(s)) THEN TrimStart(Tail(s)) ELSE s

RECURSIVE TrimEnd(_)
TrimEnd(s) ==
    IF Len(s) > 0 /\ IsWhiteSpace(s[Len(s)])
    THEN TrimEnd(SubSeq(s, 1, Len(s) - 1))
    ELSE s

trim(s) == TrimEnd(TrimStart(s))

DigitChars == <<"0", "1", "2", "3", "4", "5", "6", "7", "8", "9">>

IsDigit(c) == \E i \in 1..Len(DigitChars) : DigitChars[i] = c

DigitValue(c) == (CHOOSE i \in 1..Len(DigitChars) : DigitChars[i] = c) - 1

RECURSIVE DecimalValue(_)
DecimalValue(s) ==
    IF Len(s) = 0 THEN 0
    ELSE 10 * DecimalValue(SubSeq(s, 1, Len(s) - 1)) + DigitValue(s[Len(s)])

InfinityChars == <<"I", "n", "f", "i", "n", "i", "t", "y">>

\* Number(s) of a string, for strings over whitespace, signs, decimal
\* digits and letters: whitespace is stripped, the empty string is 0, then
\* an optional sign and either Infinity or decimal digits; anything else NaN
StringToNumber(s) ==
    LET t    == trim(s)
        sgn  == IF Len(t) > 0 /\ Head(t) = "-" THEN -1 ELSE 1
        body == IF Len(t) > 0 /\ Head(t) \in {"+", "-"} THEN Tail(t) ELSE t
    IN  IF Len(t) = 0 THEN Fin(0, 1)
        ELSE IF body = InfinityChars THEN (IF sgn = 1 THEN PosInf ELSE NegInf)
        ELSE IF Len(body) > 0 /\ \A i \in 1..Len(body) : IsDigit(body[i])
             THEN Fin(sgn * DecimalValue(body), 1)
        ELSE NaN

\* Number(v) of a value
Number(v) == IF v = Undefined THEN NaN ELSE StringToNumber(v.s)


(***************************************************************************)
(* Rows, tables and the data directory.  A row is the record object that   *)
(* csv-parse builds with columns: true: its keys in header order, each     *)
(* with a string cell.                                                     *)
(***************************************************************************)
ObjectKeys(row) == [i \in 1..Len(row) |-> row[i][1]]

\* row[col]
Get(row, col) ==
    IF \E i \in 1..Len(row) : row[i][1] = col
    THEN Str(row[CHOOSE i \in 1..Len(row) : row[i][1] = col][2])
    ELSE Undefined

TableNames == <<"conditions", "factors", "performance", "treatment">>

FileName(name) ==
    CASE name = "conditions"  -> "processed_conditions_data.csv"
      [] name = "factors"     -> "processed_factors_data.csv"
      [] name = "performance" -> "processed_performance_data.csv"
      [] name = "treatment"   -> "processed_treatment_data.csv"

FileNames == {FileName(TableNames[i]) : i \in 1..Len(TableNames)}

Missing == [state |-> "missing", records |-> <<>>]

Malformed == [state |-> "malformed", records |-> <<>>]

Parsed(records) == [state |-> "ok", records |-> records]

UnknownChars == <<"U", "n", "k", "n", "o", "w", "n">>

Row(state, val) == <<<<"State", state>>, <<"Val", val>>>>

\* the rows the data files are made of; a cell keeps the whitespace of a
\* quoted field, which the trim option of the parser does not strip
RowSet ==
    { Row(<<"C", "A">>, <<"1">>),
      Row(<<>>, <<>>),
      Row(<<" ", "C", "A", " ">>, <<"3">>),
      Row(UnknownChars, <<"x">>),
      Row(<<" ">>, InfinityChars),
      Row(<<"C", "A">>, <<"-">> \o InfinityChars) }

Tables == UNION {[1..k -> RowSet] : k \in 0..MaxRows}

\* two small files, for the directories in which several files load
SmallTables ==
    { <<Row(<<"C", "A">>, <<"1">>)>>,
      <<Row(<<>>, <<>>), Row(<<" ">>, InfinityChars)>> }

\* the data directories: every combination of missing, malformed and small
\* files, and every table in the conditions or the factors file next to
\* three missing ones
DataDirs ==
    [FileNames -> {Missing, Malformed} \cup {Parsed(t) : t \in SmallTables}]
    \cup
    { [[g \in FileNames |-> Missing] EXCEPT ![f] = Parsed(t)] :
        f \in {FileName("conditions"), FileName("factors")}, t \in Tables }

(***************************************************************************)
(* loadData.js                                                             *)
(***************************************************************************)
readCsvIfExists(dir, filename) ==
    IF dir[filename].state = "missing" THEN <<>>
    ELSE IF dir[filename].state = "ok" THEN dir[filename].records
    ELSE <<>>

\* loadAllData keeping only the tables whose file loaded
loadAllDataSkippingFailed(dir) ==
    SelectSeq([i \in 1..Len(TableNames) |->
                  [key |-> TableNames[i],
                   rows |-> readCsvIfExists(dir, FileName(TableNames[i]))]],
              LAMBDA e : dir[FileName(e.key)].state = "ok")

loadAllData(dir) ==
    [i \in 1..Len(TableNames) |->
        [key |-> TableNames[i], rows |-> readCsvIfExists(dir, FileName(TableNames[i]))]]

\* numericColumns with rows.some in place of rows.every
numericColumnsSome(rows) ==
    IF Len(rows) = 0 THEN <<>>
    ELSE SelectSeq(ObjectKeys(rows[1]),
            LAMBDA col : \E i \in 1..Len(rows) :
                \/ Get(rows[i], col) = Str(<<>>)
                \/ ~isNaN(Number(Get(rows[i], col))))

numericColumns(rows) ==
    IF Len(rows) = 0 THEN <<>>
    ELSE SelectSeq(ObjectKeys(rows[1]),
            LAMBDA col : \A i \in 1..Len(rows) :
                \/ Get(rows[i], col) = Str(<<>>)
                \/ ~isNaN(Number(Get(rows[i], col))))

RECURSIVE Sum(_)
Sum(vs) ==
    IF Len(vs) = 0 THEN Fin(0, 1)
    ELSE Plus(Sum(SubSeq(vs, 1, Len(vs) - 1)), vs[Len(vs)])

\* the values of one column that enter its statistics
ColumnValues(rows, col) ==
    SelectSeq([i \in 1..Len(rows) |-> Number(Get(rows[i], col))],
              LAMBDA v : ~isNaN(v))

ColumnStats(rows, col) ==
    LET values == ColumnValues(rows, col)
    IN  [col   |-> col,
         count |-> Len(values),
         mean  |-> DivideBy(Sum(values), Len(values)),
         min   |-> MathMin(values),
         max   |-> MathMax(values)]

RECURSIVE StatsOf(_, _)
StatsOf(rows, numCols) ==
    IF Len(numCols) = 0 THEN <<>>
    ELSE LET rest == StatsOf(rows, SubSeq(numCols, 1, Len(numCols) - 1))
             col  == numCols[Len(numCols)]
         IN  IF Len(ColumnValues(rows, col)) = 0 THEN rest
             ELSE Append(rest, ColumnStats(rows, col))

\* SummaryOf without the early exit for a table of zero rows
SummaryOfAlwaysFull(rows) ==
    [rows            |-> Len(rows),
     numeric_columns |-> numericColumns(rows),
     stats           |-> StatsOf(rows, numericColumns(rows))]

SummaryOf(rows) ==
    IF Len(rows) = 0 THEN [rows |-> 0]
    ELSE [rows            |-> Len(rows),
          numeric_columns |-> numericColumns(rows),
          stats           |-> StatsOf(rows, numericColumns(rows))]

getDatasetsSummary(st) ==
    [i \in 1..Len(st) |-> [key |-> st[i].key, value |-> SummaryOf(st[i].rows)]]

(***************************************************************************)
(* db.js: the store bootstrap and the API routes.                          *)
(***************************************************************************)
\* store[ds] || []
TableOf(st, ds) ==
    IF \E i \in 1..Len(st) : st[i].key = ds
    THEN st[CHOOSE i \in 1..Len(st) : st[i].key = ds].rows
    ELSE <<>>

\* GroupKey storing the trimmed string as the key
GroupKeyTrimmed(row, by) ==
    LET raw == Get(row, by)
    IN  IF raw = Undefined \/ trim(raw.s) = <<>> THEN UnknownChars ELSE trim(raw.s)

\* the key a row is counted under
GroupKey(row, by) ==
    LET raw == Get(row, by)
    IN  IF raw = Undefined \/ trim(raw.s) = <<>> THEN UnknownChars ELSE raw.s

\* MapIncrement that overwrites the counter instead of incrementing it
MapIncrementOverwrite(groups, key) ==
    IF \E i \in 1..Len(groups) : groups[i].key = key
    THEN [i \in 1..Len(groups) |->
            IF groups[i].key = key THEN [groups[i] EXCEPT !.count = 1] ELSE groups[i]]
    ELSE Append(groups, [key |-> key, count |-> 1])

\* MapIncrement that deletes the key and inserts it again, at the end
MapIncrementReinsert(groups, key) ==
    IF \E i \in 1..Len(groups) : groups[i].key = key
    THEN Append(SelectSeq(groups, LAMBDA g : g.key # key),
                [key   |-> key,
                 count |-> groups[CHOOSE i \in 1..Len(groups) : groups[i].key = key].count + 1])
    ELSE Append(groups, [key |-> key, count |-> 1])

\* groups.set(key, (groups.get(key) || 0) + 1) on an insertion-ordered Map
MapIncrement(groups, key) ==
    IF \E i \in 1..Len(groups) : groups[i].key = key
    THEN [i \in 1..Len(groups) |->
            IF groups[i].key = key
            THEN [groups[i] EXCEPT !.count = groups[i].count + 1]
            ELSE groups[i]]
    ELSE Append(groups, [key |-> key, count |-> 1])

RECURSIVE GroupRows(_, _)
GroupRows(data, by) ==
    IF Len(data) = 0 THEN <<>>
    ELSE MapIncrement(GroupRows(SubSeq(data, 1, Len(data) - 1), by),
                      GroupKey(data[Len(data)], by))

\* ensureLoaded lets the request through
Loaded(st) == Len(st) > 0

NotLoaded == [status |-> 503, body |-> [error |-> "Data not loaded yet"]]

\* res.json(body)
Json(body) == [status |-> 200, body |-> body]

BadRequest == [status |-> 400, body |-> [error |-> "Query param 'by' is required"]]

NoResponse == [status |-> 0, body |-> [error |-> ""]]

NoRequest == [route |-> "none", ds |-> Undefined, by |-> Undefined]

\* the field names and dataset names requests are made with
ByParams == {Undefined, Str(""), Str("State"), Str("Val"), Str("Other")}

DsParams == {Undefined, Str("conditions"), Str("other")}

Init ==
    /\ files \in DataDirs
    /\ phase = "boot"
    /\ store = <<>>
    /\ req = NoRequest
    /\ resp = NoResponse

\* store = await loadAllData(), after which the server listens; loadAllData
\* catches every read and parse error itself, so the catch branch that
\* leaves the store empty is never taken
Bootstrap ==
    /\ phase = "boot"
    /\ store' = loadAllData(files)
    /\ phase' = "serving"
    /\ UNCHANGED <<files, req, resp>>

\* the datasets field of the health response
GetHealth ==
    /\ phase = "serving"
    /\ req' = [NoRequest EXCEPT !.route = "health"]
    /\ resp' = Json([datasets |-> [i \in 1..Len(store) |-> store[i].key]])
    /\ UNCHANGED <<files, phase, store>>

GetSummary ==
    /\ phase = "serving"
    /\ req' = [NoRequest EXCEPT !.route = "summary"]
    /\ resp' = IF Loaded(store) THEN Json([summary |-> getDatasetsSummary(store)]) ELSE NotLoaded
    /\ UNCHANGED <<files, phase, store>>

GetTable ==
    /\ phase = "serving"
    /\ \E i \in 1..Len(TableNames) :
        /\ req' = [NoRequest EXCEPT !.route = TableNames[i]]
        /\ resp' = IF Loaded(store) THEN Json([rows |-> TableOf(store, TableNames[i])]) ELSE NotLoaded
    /\ UNCHANGED <<files, phase, store>>

\* GetGroup reversing the table in place before it counts
GetGroupReversing ==
    /\ phase = "serving"
    /\ \E ds \in DsParams, by \in ByParams :
        LET name == IF ds = Undefined THEN "factors" ELSE ds.s
            data == TableOf(store, name)
            rev  == [i \in 1..Len(data) |-> data[Len(data) + 1 - i]]
        IN  /\ req' = [route |-> "group", ds |-> ds, by |-> by]
            /\ resp' = IF ~Loaded(store) THEN NotLoaded
                       ELSE IF by = Undefined \/ by.s = ""
                       THEN BadRequest
                       ELSE Json([groups |-> GroupRows(rev, by.s)])
            /\ store' = [i \in 1..Len(store) |->
                            IF store[i].key = name
                            THEN [store[i] EXCEPT !.rows = rev]
                            ELSE store[i]]
    /\ UNCHANGED <<files, phase>>

GetGroup ==
    /\ phase = "serving"
    /\ \E ds \in DsParams, by \in ByParams :
        LET name == IF ds = Undefined THEN "factors" ELSE ds.s
            data == TableOf(store, name)
        IN  /\ req' = [route |-> "group", ds |-> ds, by |-> by]
            /\ resp' = IF ~Loaded(store) THEN NotLoaded
                       ELSE IF by = Undefined \/ by.s = ""
                       THEN BadRequest
                       ELSE Json([groups |-> GroupRows(data, by.s)])
    /\ UNCHANGED <<files, phase, store>>

Next == Bootstrap \/ GetHealth \/ GetSummary \/ GetTable \/ GetGroup

Spec == Init /\ [][Next]_vars

(***************************************************************************)
(* Properties.  They read the last request and its response, and the       *)
(* table the response was computed from.                                   *)
(***************************************************************************)
Range(seq) == {seq[i] : i \in 1..Len(seq)}

SummaryServed == phase = "serving" /\ req.route = "summary" /\ resp.status = 200

GroupServed == phase = "serving" /\ req.route = "group" /\ resp.status = 200

\* the table a served group request counted
GroupedTable == TableOf(store, IF req.ds = Undefined THEN "factors" ELSE req.ds.s)

\* the cell is absent, or only whitespace
IsBlank(row, col) ==
    \/ Get(row, col) = Undefined
    \/ \A i \in 1..Len(Get(row, col).s) : IsWhiteSpace(Get(row, col).s[i])

\* the group key the specification gives a row
NormalizedKey(row, col) ==
    IF IsBlank(row, col) THEN UnknownChars ELSE Get(row, col).s

\* the cell is present, not the empty string, and parses as a number
IsParseable(row, col) ==
    /\ Get(row, col) # Undefined
    /\ Get(row, col).s # <<>>
    /\ ~isNaN(StringToNumber(Get(row, col).s))

\* the cell is the empty string or a string that parses as a number
IsNumericCell(row, col) ==
    /\ Get(row, col) # Undefined
    /\ \/ Get(row, col).s = <<>>
       \/ ~isNaN(StringToNumber(Get(row, col).s))

\* the rows of a table with a non-empty, parseable cell in a column
ParseableRows(rows, col) == {r \in 1..Len(rows) : IsParseable(rows[r], col)}

HasStats(value) == "stats" \in DOMAIN value

\* C1: every column reported in stats has count = the number of rows whose
\* cell is non-empty and parses as a number; blank cells are not counted
C1_BlankCellsExcluded ==
    SummaryServed =>
        \A i \in 1..Len(resp.body.summary) :
            HasStats(resp.body.summary[i].value) =>
                \A j \in 1..Len(resp.body.summary[i].value.stats) :
                    LET st   == resp.body.summary[i].value.stats[j]
                        rows == TableOf(store, resp.body.summary[i].key)
                    IN  st.count = Cardinality(ParseableRows(rows, st.col))

\* C4: a column that is blank in every row of a non-empty table is listed in
\* numeric_columns and has no entry in stats
C4_AllBlankColumnOmitted ==
    SummaryServed =>
        \A i \in 1..Len(resp.body.summary) :
            LET rows == TableOf(store, resp.body.summary[i].key)
            IN  Len(rows) > 0 =>
                    \A col \in Range(ObjectKeys(rows[1])) :
                        (\A r \in 1..Len(rows) : Get(rows[r], col) = Str(<<>>)) =>
                            /\ col \in Range(resp.body.summary[i].value.numeric_columns)
                            /\ \A j \in 1..Len(resp.body.summary[i].value.stats) :
                                  resp.body.summary[i].value.stats[j].col # col

\* C10: every column with a stats entry has min <= mean <= max
C10_MeanBetweenMinAndMax ==
    SummaryServed =>
        \A i \in 1..Len(resp.body.summary) :
            HasStats(resp.body.summary[i].value) =>
                \A j \in 1..Len(resp.body.summary[i].value.stats) :
                    LET st == resp.body.summary[i].value.stats[j]
                    IN  Leq(st.min, st.mean) /\ Leq(st.mean, st.max)

\* C2 as stated: a row is counted under "Unknown" exactly when its field is
\* absent or blank after trimming, and every other row is counted under its
\* untrimmed value
C2_UnknownExactlyWhenBlank ==
    GroupServed =>
        LET data == GroupedTable
            by   == req.by.s
            blank == {r \in 1..Len(data) : IsBlank(data[r], by)}
        IN  /\ \A j \in 1..Len(resp.body.groups) :
                  resp.body.groups[j].key = UnknownChars =>
                      resp.body.groups[j].count = Cardinality(blank)
            /\ blank # {} => \E j \in 1..Len(resp.body.groups) : resp.body.groups[j].key = UnknownChars
            /\ \A r \in (1..Len(data)) \ blank :
                  \E j \in 1..Len(resp.body.groups) : resp.body.groups[j].key = Get(data[r], by).s

\* C2 as amended: every row is counted under "Unknown" when its field is
\* absent or blank after trimming and under its untrimmed value otherwise,
\* so the count of each key is the number of rows normalized to it (the
\* rows whose value is the string "Unknown" are counted with the blank ones)
C2_GroupKeyNormalization ==
    GroupServed =>
        LET data == GroupedTable
            by   == req.by.s
        IN  /\ \A r \in 1..Len(data) :
                  \E j \in 1..Len(resp.body.groups) :
                      resp.body.groups[j].key = NormalizedKey(data[r], by)
            /\ \A j \in 1..Len(resp.body.groups) :
                  resp.body.groups[j].count =
                      Cardinality({r \in 1..Len(data) :
                                      NormalizedKey(data[r], by) = resp.body.groups[j].key})

\* a group by State over a blank cell, an untrimmed " CA " and "CA" itself
C2_Witness ==
    /\ GroupServed
    /\ req.by = Str("State")
    /\ Len(resp.body.groups) = 3
    /\ {resp.body.groups[j].key : j \in 1..3} =
          {UnknownChars, <<"C", "A">>, <<" ", "C", "A", " ">>}

\* C3: numeric_columns is exactly the first row's keys whose cell is, in
\* every row, the empty string or a string that parses as a number; it keeps
\* the first row's column order; one non-empty non-numeric cell excludes
\* the column
C3_NumericColumnsExact ==
    SummaryServed =>
        \A i \in 1..Len(resp.body.summary) :
            LET rows == TableOf(store, resp.body.summary[i].key)
            IN  Len(rows) > 0 =>
                LET nc   == resp.body.summary[i].value.numeric_columns
                    keys == ObjectKeys(rows[1])
                IN  /\ Range(nc) =
                          {c \in Range(keys) :
                              \A r \in 1..Len(rows) : IsNumericCell(rows[r], c)}
                    /\ \E pos \in [1..Len(nc) -> 1..Len(keys)] :
                          /\ \A k \in 1..Len(nc) : keys[pos[k]] = nc[k]
                          /\ \A k, l \in 1..Len(nc) : k < l => pos[k] < pos[l]
                    /\ \A c \in Range(keys) :
                          (\E r \in 1..Len(rows) :
                              /\ Get(rows[r], c).s # <<>>
                              /\ isNaN(StringToNumber(Get(rows[r], c).s)))
                          => c \notin Range(nc)

\* a summary of a table whose last row alone makes Val non-numeric
C3_Witness ==
    /\ SummaryServed
    /\ \E i \in 1..Len(resp.body.summary) :
          LET rows == TableOf(store, resp.body.summary[i].key)
          IN  /\ Len(rows) >= 2
              /\ \A r \in 1..(Len(rows) - 1) : IsNumericCell(rows[r], "Val")
              /\ ~IsNumericCell(rows[Len(rows)], "Val")
              /\ "Val" \notin Range(resp.body.summary[i].value.numeric_columns)

RECURSIVE CountSum(_)
CountSum(groups) ==
    IF Len(groups) = 0 THEN 0 ELSE Head(groups).count + CountSum(Tail(groups))

\* C5: the counts of a group result sum to the number of rows of the table,
\* and an empty table gives an empty result
C5_CountsSumToRows ==
    GroupServed =>
        /\ CountSum(resp.body.groups) = Len(GroupedTable)
        /\ Len(GroupedTable) = 0 => resp.body.groups = <<>>

\* a group over three rows by a field no row has
C5_Witness ==
    /\ GroupServed
    /\ req.by = Str("Other")
    /\ Len(GroupedTable) = 3
    /\ resp.body.groups = <<[key |-> UnknownChars, count |-> 3]>>

\* the first row of a table that is normalized to a key
FirstSeen(data, by, key) ==
    CHOOSE r \in 1..Len(data) :
        /\ NormalizedKey(data[r], by) = key
        /\ \A q \in 1..(r - 1) : NormalizedKey(data[q], by) # key

\* C6: the group result lists each distinct key once, in the order in which
\* the keys first occur in the table
C6_FirstSeenOrder ==
    GroupServed =>
        LET data == GroupedTable
            by   == req.by.s
        IN  /\ {resp.body.groups[j].key : j \in 1..Len(resp.body.groups)} =
                  {NormalizedKey(data[r], by) : r \in 1..Len(data)}
            /\ \A j, k \in 1..Len(resp.body.groups) :
                  j < k =>
                      /\ resp.body.groups[j].key # resp.body.groups[k].key
                      /\ FirstSeen(data, by, resp.body.groups[j].key)
                            < FirstSeen(data, by, resp.body.groups[k].key)

\* "Unknown" seen first and again after "CA": it stays first, although "CA"
\* sorts before it
C6_Witness ==
    /\ GroupServed
    /\ req.by = Str("State")
    /\ Len(GroupedTable) = 3
    /\ resp.body.groups = <<[key |-> UnknownChars, count |-> 2],
                     [key |-> <<"C", "A">>, count |-> 1]>>
    /\ NormalizedKey(GroupedTable[3], "State") = UnknownChars

\* C7: the summary has one entry per table of the store, in the store's key
\* order; an empty table has exactly {rows: 0}, a table of n > 0 rows has
\* rows = n with numeric_columns and stats
C7_SummaryShape ==
    SummaryServed =>
        /\ Len(resp.body.summary) = Len(store)
        /\ \A i \in 1..Len(store) :
              /\ resp.body.summary[i].key = store[i].key
              /\ Len(store[i].rows) = 0 => resp.body.summary[i].value = [rows |-> 0]
              /\ Len(store[i].rows) > 0 =>
                    /\ DOMAIN resp.body.summary[i].value = {"rows", "numeric_columns", "stats"}
                    /\ resp.body.summary[i].value.rows = Len(store[i].rows)

\* a summary of a store with an empty and a non-empty table
C7_Witness ==
    /\ SummaryServed
    /\ \E i, j \in 1..Len(store) :
          /\ Len(store[i].rows) = 0
          /\ Len(store[j].rows) = 2
          /\ resp.body.summary[j].value.rows = 2

\* C8: once the server serves, the store has the four table names, and a
\* table whose file is missing or fails to parse is an empty sequence
C8_FourTablesAlwaysPresent ==
    phase = "serving" =>
        /\ [i \in 1..Len(store) |-> store[i].key] = TableNames
        /\ \A i \in 1..Len(TableNames) :
              files[FileName(TableNames[i])].state # "ok" =>
                  TableOf(store, TableNames[i]) = <<>>
        /\ req.route # "none" => resp.status # 503

\* a raw table served while one file is missing, one malformed and one loaded
C8_Witness ==
    /\ phase = "serving"
    /\ files[FileName("conditions")].state = "missing"
    /\ files[FileName("factors")].state = "malformed"
    /\ files[FileName("treatment")].state = "ok"
    /\ req.route = "factors"
    /\ resp = Json([rows |-> <<>>])

\* C9: while the server serves, the store is the store built at startup and
\* every response is the one computed from that store
C9_StoreNeverMutated ==
    phase = "serving" =>
        /\ store = loadAllData(files)
        /\ SummaryServed => resp.body.summary = getDatasetsSummary(loadAllData(files))
        /\ GroupServed =>
              resp.body.groups = GroupRows(TableOf(loadAllData(files),
                                            IF req.ds = Undefined THEN "factors"
                                            ELSE req.ds.s),
                                    req.by.s)
        /\ req.route \in Range(TableNames) =>
              resp.body.rows = TableOf(loadAllData(files), req.route)

\* a group served over a table of three different rows
C9_Witness ==
    /\ GroupServed
    /\ req.ds = Str("conditions")
    /\ Len(GroupedTable) = 3
    /\ GroupedTable[1] # GroupedTable[3]
    /\ Len(resp.body.groups) = 3

====
